---- MODULE Spec2Model ----
(***************************************************************************)
(* Verification model of the quantum random number generator backend:     *)
(* the QuantumRNG engine (qrng_core.py) and the web handlers that call it  *)
(* (application.py).                                                       *)
(*                                                                         *)
(* Conventions.                                                            *)
(*  - A bit string ('01', '111', '') is a sequence over {0, 1}, leftmost   *)
(*    character first.                                                     *)
(*  - A Python dict is a function; 'key in d' is key \in DOMAIN d.         *)
(*  - The simulator is outside the repository.  A run of it is an input    *)
(*    of the model: either it raises, or it returns a counts dict whose    *)
(*    keys are outcomes of nonzero probability of the circuit the engine   *)
(*    built and whose values sum to the shots the engine asked for.        *)
(*  - Real numbers are kept exact: an entropy is log2(num/den)/L, a mean   *)
(*    or a variance is a fraction.                                         *)
(***************************************************************************)
EXTENDS Integers, Sequences, FiniteSets, TLC

VARIABLES backend, results_cache, request, result, response,
          bpc, runs, mi, i, times, entropies, results,
          calls, ok, shotsSeen, backendShots,
          fn, arg, out

vars == <<backend, results_cache, request, result, response,
          bpc, runs, mi, i, times, entropies, results,
          calls, ok, shotsSeen, backendShots,
          fn, arg, out>>

(***************************************************************************)
(* Bounds of the model.                                                    *)
(***************************************************************************)
MaxQubits == 3
MaxHadamardQubits == 2
MaxShots == 5
MaxRuns == 2
MaxLen == 3
MaxStrLen == 2
MaxKeys == 3
MaxTotal == 6

(***************************************************************************)
(* Arithmetic helpers.                                                     *)
(***************************************************************************)
RECURSIVE Pow(_, _)
Pow(b, e) == IF e = 0 THEN 1 ELSE b * Pow(b, e - 1)

RECURSIVE GCD(_, _)
GCD(a, b) == IF b = 0 THEN a ELSE GCD(b, a % b)

LCM(a, b) == (a * b) \div GCD(a, b)

Bit == {0, 1}

\* The value of bit q of the basis index k.
BitOf(k, q) == (k \div Pow(2, q)) % 2

\* The key the simulator gives basis index k of an n-qubit circuit measured
\* qubit q -> classical bit q: classical bit n-1 is the leftmost character.
BitString(k, n) == [j \in 1..n |-> BitOf(k, n - j)]

Zeros(n) == [j \in 1..n |-> 0]
Ones(n) == [j \in 1..n |-> 1]

RECURSIVE SumSeq(_)
SumSeq(s) == IF s = <<>> THEN 0 ELSE Head(s) + SumSeq(Tail(s))

\* sum(d.values())
RECURSIVE SumValues(_)
SumValues(d) ==
    IF DOMAIN d = {} THEN 0
    ELSE LET k == CHOOSE x \in DOMAIN d : TRUE
         IN d[k] + SumValues([x \in DOMAIN d \ {k} |-> d[x]])

\* d.get(key, default)
Get(d, key, default) == IF key \in DOMAIN d THEN d[key] ELSE default

EmptyDict == [x \in {} |-> 0]

(***************************************************************************)
(* Circuits.  A gate is [name, a, b, theta]: h on qubit a; cx with control *)
(* a and target b; rz by theta (in units of pi/12) on qubit a.             *)
(***************************************************************************)
PiOver4 == 3
PiOver3 == 4

GateH(q) == [name |-> "h", a |-> q, b |-> q, theta |-> 0]
GateCX(c, t) == [name |-> "cx", a |-> c, b |-> t, theta |-> 0]
GateRZ(th, q) == [name |-> "rz", a |-> q, b |-> q, theta |-> th]

\* for qubit in range(num_qubits): circuit.h(qubit)
HadamardCircuit(n) == [n |-> n, gates |-> [q \in 1..n |-> GateH(q - 1)]]

\* circuit.h(0); circuit.cx(0, 1)
BellCircuit == [n |-> 2, gates |-> <<GateH(0), GateCX(0, 1)>>]

\* Variant: the loop applies h to qubit i where the code applies cx(0, i).
GHZCircuitHadamardLoop(n) ==
    [n |-> n,
     gates |-> <<GateH(0)>> \o [q \in 1..(IF n > 1 THEN n - 1 ELSE 0) |-> GateH(q)]]

\* circuit.h(0); for i in range(1, num_qubits): circuit.cx(0, i)
GHZCircuit(n) ==
    [n |-> n,
     gates |-> <<GateH(0)>> \o [q \in 1..(IF n > 1 THEN n - 1 ELSE 0) |-> GateCX(0, q)]]

\* circuit.h(0); circuit.h(1); circuit.rz(pi/4, 0); circuit.rz(pi/3, 1)
NistCircuit ==
    [n |-> 2, gates |-> <<GateH(0), GateH(1), GateRZ(PiOver4, 0), GateRZ(PiOver3, 1)>>]

\* A gate on a qubit the circuit does not have raises when it is appended.
CircuitBuilt(c) ==
    /\ c.n >= 0
    /\ \A g \in 1..Len(c.gates) : c.gates[g].a < c.n /\ c.gates[g].b < c.n

(***************************************************************************)
(* State vector.  The amplitude of basis index k is re * e^(i*phase*pi/24) *)
(* up to the common factor 2^(-h/2), h the number of Hadamard gates so     *)
(* far.  The builders above apply every h before any rz, so h acts on      *)
(* amplitudes of phase 0 and re alone carries their sum and difference.    *)
(***************************************************************************)
InitState(n) == [k \in 0..(Pow(2, n) - 1) |-> [re |-> IF k = 0 THEN 1 ELSE 0, phase |-> 0]]

ApplyH(st, q) ==
    [k \in DOMAIN st |->
        IF BitOf(k, q) = 0
        THEN [re |-> st[k].re + st[k + Pow(2, q)].re, phase |-> st[k].phase]
        ELSE [re |-> st[k - Pow(2, q)].re - st[k].re, phase |-> st[k].phase]]

ApplyCX(st, c, t) ==
    [k \in DOMAIN st |->
        IF BitOf(k, c) = 1
        THEN (IF BitOf(k, t) = 1 THEN st[k - Pow(2, t)] ELSE st[k + Pow(2, t)])
        ELSE st[k]]

ApplyRZ(st, th, q) ==
    [k \in DOMAIN st |->
        [re |-> st[k].re,
         phase |-> IF st[k].re = 0 THEN st[k].phase
                   ELSE IF BitOf(k, q) = 1 THEN (st[k].phase + th) % 48
                   ELSE (st[k].phase + 48 - th) % 48]]

ApplyGate(st, g) ==
    IF g.name = "h" THEN ApplyH(st, g.a)
    ELSE IF g.name = "cx" THEN ApplyCX(st, g.a, g.b)
    ELSE ApplyRZ(st, g.theta, g.a)

RECURSIVE Evolve(_, _)
Evolve(st, gates) ==
    IF gates = <<>> THEN st ELSE Evolve(ApplyGate(st, Head(gates)), Tail(gates))

\* Born rule: the outcomes a shot can produce are those of nonzero amplitude.
Support(c) ==
    LET st == Evolve(InitState(c.n), c.gates)
    IN {BitString(k, c.n) : k \in {x \in DOMAIN st : st[x].re # 0}}

(***************************************************************************)
(* The simulator: self.backend.run(compiled_circuit, shots=...).result()   *)
(* .get_counts().  Its outcome is an input of the engine.                  *)
(***************************************************************************)
Extend(d, k, c) ==
    IF c = 0 THEN d ELSE [x \in DOMAIN d \cup {k} |-> IF x = k THEN c ELSE d[x]]

\* The counts dicts over outcomes of S whose values are positive and sum to s.
RECURSIVE CountDicts(_, _)
CountDicts(S, s) ==
    IF S = {} THEN (IF s = 0 THEN {EmptyDict} ELSE {})
    ELSE LET k == CHOOSE x \in S : TRUE
         IN UNION {{Extend(d, k, c) : d \in CountDicts(S \ {k}, s - c)} : c \in 0..s}

Raised(cause) == [ok |-> FALSE, cause |-> cause, counts |-> EmptyDict]
Returned(counts) == [ok |-> TRUE, cause |-> "", counts |-> counts]

\* What one run of circuit c with the given shots can give the engine.
BackendRuns(c, shots) ==
    IF ~CircuitBuilt(c) THEN {Raised("circuit")}
    ELSE {Raised("backend")} \cup {Returned(d) : d \in CountDicts(Support(c), shots)}

(***************************************************************************)
(* Randomness post-processing.                                             *)
(***************************************************************************)
\* Variant: the two output bits are swapped ('01' gives '1', '10' gives '0').
RECURSIVE VonNeumannExtractorSwapped(_)
VonNeumannExtractorSwapped(bits) ==
    IF bits = <<>> THEN <<>>
    ELSE LET bit_pair == Head(bits)
             emitted == IF Len(bit_pair) = 2
                        THEN (IF bit_pair = <<0, 1>> THEN << <<1>> >>
                              ELSE IF bit_pair = <<1, 0>> THEN << <<0>> >>
                              ELSE <<>>)
                        ELSE <<>>
         IN emitted \o VonNeumannExtractorSwapped(Tail(bits))

\* _von_neumann_extractor
RECURSIVE VonNeumannExtractor(_)
VonNeumannExtractor(bits) ==
    IF bits = <<>> THEN <<>>
    ELSE LET bit_pair == Head(bits)
             emitted == IF Len(bit_pair) = 2
                        THEN (IF bit_pair = <<0, 1>> THEN << <<0>> >>
                              ELSE IF bit_pair = <<1, 0>> THEN << <<1>> >>
                              ELSE <<>>)
                        ELSE <<>>
         IN emitted \o VonNeumannExtractor(Tail(bits))

\* An entropy value e stands for the real number log2(e.num / e.den) / e.L.
EntropyZero == [L |-> 1, num |-> 1, den |-> 1]

\* Variant: the count is divided by total + 1.
ProbabilityOffByOne(count, total) ==
    LET g == GCD(count, total + 1) IN [a |-> count \div g, b |-> (total + 1) \div g]

\* count / total, a fraction in lowest terms.
Probability(count, total) ==
    LET g == GCD(count, total) IN [a |-> count \div g, b |-> total \div g]

\* entropy -= p * log2(p), for p = a/b > 0:  e + (a/b) * log2(b/a).
MinusPLog2P(e, p) ==
    LET L2 == LCM(e.L, p.b)
        f == L2 \div e.L
        w == p.a * (L2 \div p.b)
    IN [L |-> L2, num |-> Pow(e.num, f) * Pow(p.b, w), den |-> Pow(e.den, f) * Pow(p.a, w)]

\* for count in counts.values(): probability = count / total_shots;
\*     if probability > 0: entropy -= probability * np.log2(probability)
RECURSIVE EntropyLoop(_, _, _)
EntropyLoop(d, total, e) ==
    IF DOMAIN d = {} THEN e
    ELSE LET k == CHOOSE x \in DOMAIN d : TRUE
             probability == Probability(d[k], total)
             rest == [x \in DOMAIN d \ {k} |-> d[x]]
         IN EntropyLoop(rest, total, IF probability.a > 0 THEN MinusPLog2P(e, probability) ELSE e)

\* _calculate_entropy
CalculateEntropy(counts) ==
    LET total_shots == SumValues(counts)
    IN IF total_shots = 0 THEN EntropyZero ELSE EntropyLoop(counts, total_shots, EntropyZero)

\* ''.join(bits)
RECURSIVE Join(_)
Join(bits) == IF bits = <<>> THEN <<>> ELSE Head(bits) \o Join(Tail(bits))

CountOf(bit_string, b) == Cardinality({j \in 1..Len(bit_string) : bit_string[j] = b})

\* for count in counts.values(): if count > 0: p = count / total; entropy -= p * np.log2(p)
BitEntropyStep(e, count, total) ==
    IF count > 0 THEN MinusPLog2P(e, Probability(count, total)) ELSE e

\* _calculate_bit_entropy
CalculateBitEntropy(bits) ==
    IF bits = <<>> THEN EntropyZero
    ELSE LET bit_string == Join(bits)
             total == Len(bit_string)
         IN IF total = 0 THEN EntropyZero
            ELSE BitEntropyStep(BitEntropyStep(EntropyZero, CountOf(bit_string, 0), total),
                                CountOf(bit_string, 1), total)

(***************************************************************************)
(* Generation methods.  br is the outcome of the simulator run the method  *)
(* makes (brs: of the four runs the combined method makes).                *)
(***************************************************************************)
Replicate(x, c) == [j \in 1..c |-> x]

\* Variant: random_bits.append(binary_string), once for every key.
RECURSIVE ExtendAllOnce(_, _, _)
ExtendAllOnce(counts, n, k) ==
    IF k >= Pow(2, n) THEN <<>>
    ELSE (IF BitString(k, n) \in DOMAIN counts THEN <<BitString(k, n)>> ELSE <<>>)
         \o ExtendAllOnce(counts, n, k + 1)

\* for binary_string, count in counts.items(): random_bits.extend([binary_string] * count)
\* The dict is walked in ascending order of the basis index.
RECURSIVE ExtendAll(_, _, _)
ExtendAll(counts, n, k) ==
    IF k >= Pow(2, n) THEN <<>>
    ELSE (IF BitString(k, n) \in DOMAIN counts
          THEN Replicate(BitString(k, n), counts[BitString(k, n)]) ELSE <<>>)
         \o ExtendAll(counts, n, k + 1)

\* Variant: the failure value also carries a 'method' field.
FailureWithMethod(prefix, cause) == [error |-> <<prefix, cause>>, method |-> prefix]

\* except Exception as e: return {'error': f'<prefix>: {str(e)}'}
Failure(prefix, cause) == [error |-> <<prefix, cause>>]

\* The body the three single-circuit methods share, after the circuit is built.
RunAndCollect(name, prefix, circuit, br) ==
    IF ~CircuitBuilt(circuit) THEN Failure(prefix, "circuit")
    ELSE IF ~br.ok THEN Failure(prefix, br.cause)
    ELSE [method |-> name,
          circuit |-> circuit,
          counts |-> br.counts,
          random_bits |-> ExtendAll(br.counts, circuit.n, 0),
          entropy |-> CalculateEntropy(br.counts)]

\* shots=shots//4
NistSubShots(shots) == shots \div 4

HadamardMethod(num_qubits, br) ==
    RunAndCollect("Hadamard", "Hadamard method failed", HadamardCircuit(num_qubits), br)

BellStateMethod(br) ==
    RunAndCollect("Bell_State", "Bell state method failed", BellCircuit, br)

GHZStateMethod(num_qubits, br) ==
    RunAndCollect("GHZ_State", "GHZ state method failed", GHZCircuit(num_qubits), br)

RECURSIVE AllBits(_)
AllBits(brs) ==
    IF brs = <<>> THEN <<>>
    ELSE ExtendAll(Head(brs).counts, NistCircuit.n, 0) \o AllBits(Tail(brs))

NistMethod(brs) ==
    IF \E j \in 1..Len(brs) : ~brs[j].ok
    THEN LET first == CHOOSE j \in 1..Len(brs) :
                          ~brs[j].ok /\ \A h \in 1..(j - 1) : brs[h].ok
         IN Failure("NIST method failed", brs[first].cause)
    ELSE LET all_bits == AllBits(brs)
             processed_bits == VonNeumannExtractor(all_bits)
         IN [method |-> "NIST_Compliant",
             circuits |-> [j \in 1..Len(brs) |-> NistCircuit],
             raw_bits |-> all_bits,
             processed_bits |-> processed_bits,
             entropy |-> CalculateBitEntropy(processed_bits)]

\* The simulator runs a call of the method makes, by request name.
NistSources == 4

RunsOf(method, qubits, shots) ==
    IF method = "hadamard" THEN {<<br>> : br \in BackendRuns(HadamardCircuit(qubits), shots)}
    ELSE IF method = "bell" THEN {<<br>> : br \in BackendRuns(BellCircuit, shots)}
    ELSE IF method = "ghz" THEN {<<br>> : br \in BackendRuns(GHZCircuit(qubits), shots)}
    ELSE [1..NistSources -> BackendRuns(NistCircuit, NistSubShots(shots))]

CallMethod(method, qubits, brs) ==
    IF method = "hadamard" THEN HadamardMethod(qubits, brs[1])
    ELSE IF method = "bell" THEN BellStateMethod(brs[1])
    ELSE IF method = "ghz" THEN GHZStateMethod(qubits, brs[1])
    ELSE NistMethod(brs)

(***************************************************************************)
(* Web layer: POST /api/generate/<method>.                                 *)
(***************************************************************************)
Methods == {"hadamard", "bell", "ghz", "nist"}

NoResult == [none |-> TRUE]
NoResponse == [status |-> 0]

\* The response of generate_random_numbers once the engine has answered.
\* plotFault: the comparison plot raised, which the handler's own except
\* clause turns into a 500.  The random classical comparison is kept by its
\* length only, and the rendered image is left out.
GenerateResponse(res, shots, plotFault) ==
    IF "error" \in DOMAIN res THEN [status |-> 500, body |-> [error |-> res.error]]
    ELSE IF plotFault THEN [status |-> 500, body |-> [error |-> <<"plot">>]]
    ELSE [status |-> 200,
          body |-> [method |-> res.method,
                    random_bits |-> Get(res, "random_bits", <<>>),
                    processed_bits |-> Get(res, "processed_bits", <<>>),
                    entropy |-> res.entropy,
                    classical_comparison |-> shots,
                    total_bits |-> Len(Get(res, "random_bits", <<>>)),
                    shots |-> shots]]

InvalidMethodResponse == [status |-> 400, body |-> [error |-> "Invalid method"]]

(***************************************************************************)
(* Benchmark statistics: np.mean, np.std, np.min, np.max over the lists of *)
(* a method's successful runs.  A mean is a fraction in lowest terms; a    *)
(* standard deviation is kept as the variance it is the square root of.    *)
(***************************************************************************)
Abs(x) == IF x < 0 THEN -x ELSE x

Frac(n, d) == LET g == GCD(Abs(n), d) IN [num |-> n \div g, den |-> d \div g]

\* Variant: the sum is divided by the runs asked for, failed ones included.
MeanOverRuns(xs) == Frac(SumSeq(xs), runs)

Mean(xs) == Frac(SumSeq(xs), Len(xs))

\* np.std (ddof = 0): sqrt(mean((x - mean)^2)) = sqrt((n * sum(x^2) - sum(x)^2) / n^2)
Std(xs) ==
    LET n == Len(xs)
        sq == [j \in 1..n |-> xs[j] * xs[j]]
    IN [sqrt_of |-> Frac(n * SumSeq(sq) - SumSeq(xs) * SumSeq(xs), n * n)]

Min(xs) == CHOOSE x \in {xs[j] : j \in 1..Len(xs)} : \A j \in 1..Len(xs) : x <= xs[j]
Max(xs) == CHOOSE x \in {xs[j] : j \in 1..Len(xs)} : \A j \in 1..Len(xs) : x >= xs[j]

\* The entropy values the benchmark averages are whole numbers of bits (see
\* BenchInputs): the j with log2(num/den)/L = j.
WholeBits(e) == CHOOSE j \in 0..4 : e.num = e.den * Pow(2, j * e.L)

MethodList == <<"hadamard", "bell", "ghz", "nist">>

BenchShots == 100
DefaultHadamardQubits == 1
DefaultGHZQubits == 3

\* The dict that gives outcome k every shot, and the one that splits the
\* shots evenly between k1 and k2.
Single(k, s) == [x \in {k} |-> s]
Even(k1, k2, s) == [x \in {k1, k2} |-> s \div 2]

\* Representative inputs of one benchmark run of a method: the outcomes of the
\* simulator runs the call makes, and the wall-clock latency of the call in
\* ticks.  Each method has a run that raises and two kinds of run that
\* succeed; between them the kinds differ in latency alone (bell), in entropy
\* alone (ghz) and in both (hadamard, nist).  Every entropy is a whole number
\* of bits.
BenchInputs(method) ==
    IF method = "hadamard"
    THEN {[brs |-> <<Raised("backend")>>, latency |-> 1],
          [brs |-> <<Returned(Single(<<0>>, BenchShots))>>, latency |-> 1],
          [brs |-> <<Returned(Even(<<0>>, <<1>>, BenchShots))>>, latency |-> 2]}
    ELSE IF method = "bell"
    THEN {[brs |-> <<Raised("backend")>>, latency |-> 1],
          [brs |-> <<Returned(Even(<<0, 0>>, <<1, 1>>, BenchShots))>>, latency |-> 1],
          [brs |-> <<Returned(Even(<<0, 0>>, <<1, 1>>, BenchShots))>>, latency |-> 2]}
    ELSE IF method = "ghz"
    THEN {[brs |-> <<Raised("backend")>>, latency |-> 1],
          [brs |-> <<Returned(Single(<<1, 1, 1>>, BenchShots))>>, latency |-> 1],
          [brs |-> <<Returned(Even(<<0, 0, 0>>, <<1, 1, 1>>, BenchShots))>>, latency |-> 1]}
    ELSE {[brs |-> [j \in 1..NistSources |->
                       IF j = 3 THEN Raised("backend")
                       ELSE Returned(Single(<<0, 0>>, NistSubShots(BenchShots)))],
           latency |-> 2],
          [brs |-> [j \in 1..NistSources |->
                       Returned(Single(<<0, 1>>, NistSubShots(BenchShots)))],
           latency |-> 1],
          [brs |-> [j \in 1..NistSources |->
                       Returned(Single(IF j % 2 = 1 THEN <<0, 1>> ELSE <<1, 0>>,
                                       NistSubShots(BenchShots)))],
           latency |-> 2]}

\* Every representative run is one the simulator can give.
BenchInputsPossible ==
    \A m \in Methods : \A inp \in BenchInputs(m) : \A j \in 1..Len(inp.brs) :
        LET c == IF m = "hadamard" THEN HadamardCircuit(DefaultHadamardQubits)
                 ELSE IF m = "bell" THEN BellCircuit
                 ELSE IF m = "ghz" THEN GHZCircuit(DefaultGHZQubits)
                 ELSE NistCircuit
            s == IF m = "nist" THEN NistSubShots(BenchShots) ELSE BenchShots
        IN \/ ~inp.brs[j].ok
           \/ /\ DOMAIN inp.brs[j].counts \subseteq Support(c)
              /\ SumValues(inp.brs[j].counts) = s
              /\ \A k \in DOMAIN inp.brs[j].counts : inp.brs[j].counts[k] > 0

\* if method == 'hadamard': result = self.hadamard_method(shots=100) ...
BenchCall(method, brs) ==
    IF method = "hadamard" THEN HadamardMethod(DefaultHadamardQubits, brs[1])
    ELSE IF method = "bell" THEN BellStateMethod(brs[1])
    ELSE IF method = "ghz" THEN GHZStateMethod(DefaultGHZQubits, brs[1])
    ELSE NistMethod(brs)

\* if 'error' not in result: times.append(...); entropies.append(result['entropy'])
Succeeded(res) == "error" \notin DOMAIN res

\* results[method] = {...}
MethodStats(ts, es) ==
    LET bits == [j \in 1..Len(es) |-> WholeBits(es[j])]
    IN [avg_time |-> Mean(ts),
        std_time |-> Std(ts),
        avg_entropy |-> Mean(bits),
        std_entropy |-> Std(bits),
        min_time |-> Min(ts),
        max_time |-> Max(ts),
        successful_runs |-> Len(ts)]

\* Variant: a method without a successful run is reported with zeroed statistics.
AggregateZeroed(res, method, ts, es) ==
    [m \in DOMAIN res \cup {method} |->
        IF m = method
        THEN (IF ts # <<>> THEN MethodStats(ts, es)
              ELSE [avg_time |-> Frac(0, 1), std_time |-> [sqrt_of |-> Frac(0, 1)],
                    avg_entropy |-> Frac(0, 1), std_entropy |-> [sqrt_of |-> Frac(0, 1)],
                    min_time |-> 0, max_time |-> 0, successful_runs |-> 0])
        ELSE res[m]]

\* if times: results[method] = {...}
Aggregate(res, method, ts, es) ==
    IF ts # <<>>
    THEN [m \in DOMAIN res \cup {method} |->
             IF m = method THEN MethodStats(ts, es) ELSE res[m]]
    ELSE res

(***************************************************************************)
(* Inputs of the pure functions checked on their own.                      *)
(***************************************************************************)
BitStrings(maxlen) == UNION {[1..n -> Bit] : n \in 0..maxlen}

BitLists == UNION {[1..n -> BitStrings(MaxStrLen)] : n \in 0..MaxLen}

Keys == {BitString(k, MaxKeys) : k \in 0..(MaxKeys - 1)}

CountInputs ==
    UNION {{d \in [S -> 0..MaxTotal] : SumValues(d) <= MaxTotal} : S \in SUBSET Keys}

Pending == [pending |-> TRUE]

(***************************************************************************)
(* The state machine.  One shared QuantumRNG instance (backend,            *)
(* results_cache); request, result and response describe the request in    *)
(* hand; bpc .. results are the position and locals of benchmark_methods.  *)
(* History of the request in hand: calls counts the calls of each engine   *)
(* method and ok those that returned no error; shotsSeen holds the shots   *)
(* arguments the engine methods were given, backendShots those the         *)
(* simulator was given.                                                    *)
(***************************************************************************)
NoCalls == [m \in Methods |-> 0]

InitInstance ==
    /\ backend = "AerSimulator"
    /\ results_cache = EmptyDict

InitIdle ==
    /\ request = [op |-> "none"]
    /\ result = NoResult
    /\ response = NoResponse
    /\ bpc = "idle"
    /\ runs = 0
    /\ mi = 1
    /\ i = 0
    /\ times = <<>>
    /\ entropies = <<>>
    /\ results = EmptyDict
    /\ calls = NoCalls
    /\ ok = NoCalls
    /\ shotsSeen = {}
    /\ backendShots = {}

Init ==
    /\ InitInstance
    /\ InitIdle
    /\ fn = "none"
    /\ arg = <<>>
    /\ out = Pending

BenchIdle ==
    /\ bpc' = "idle"
    /\ runs' = 0
    /\ mi' = 1
    /\ i' = 0
    /\ times' = <<>>
    /\ entropies' = <<>>
    /\ results' = EmptyDict
    /\ ok' = NoCalls

NoHistory ==
    /\ calls' = NoCalls
    /\ shotsSeen' = {}
    /\ backendShots' = {}

\* The shots the simulator is given by a call of the method.
BackendShotsOf(method, qubits, shots) ==
    IF method = "nist" THEN {NistSubShots(shots)}
    ELSE IF method = "hadamard" /\ ~CircuitBuilt(HadamardCircuit(qubits)) THEN {}
    ELSE IF method = "ghz" /\ ~CircuitBuilt(GHZCircuit(qubits)) THEN {}
    ELSE {shots}

\* The qubit counts requested of a method: the Hadamard circuit has 2^n
\* outcomes, so its n is bounded lower than that of the others.
QubitsBound(method) == IF method = "hadamard" THEN MaxHadamardQubits ELSE MaxQubits

\* Variant: the engine stores the result of the call in results_cache.
GenerateCaching ==
    /\ request.op = "none"
    /\ \E method \in Methods, shots \in 0..MaxShots, plotFault \in BOOLEAN :
       \E qubits \in 0..QubitsBound(method) :
          \E brs \in RunsOf(method, qubits, shots) :
             \E res \in {CallMethod(method, qubits, brs)} :
                /\ request' = [op |-> "generate", method |-> method,
                               qubits |-> qubits, shots |-> shots]
                /\ result' = res
                /\ response' = GenerateResponse(res, shots, plotFault)
                /\ calls' = [NoCalls EXCEPT ![method] = 1]
                /\ shotsSeen' = {shots}
                /\ backendShots' = BackendShotsOf(method, qubits, shots)
                /\ results_cache' = [x \in DOMAIN results_cache \cup {method} |-> shots]
    /\ BenchIdle
    /\ UNCHANGED <<backend, fn, arg, out>>

\* generate_random_numbers(method) with a method the engine has.
Generate ==
    /\ request.op = "none"
    /\ \E method \in Methods, shots \in 0..MaxShots, plotFault \in BOOLEAN :
       \E qubits \in 0..QubitsBound(method) :
          \E brs \in RunsOf(method, qubits, shots) :
             \E res \in {CallMethod(method, qubits, brs)} :
                /\ request' = [op |-> "generate", method |-> method,
                               qubits |-> qubits, shots |-> shots]
                /\ result' = res
                /\ response' = GenerateResponse(res, shots, plotFault)
                /\ calls' = [NoCalls EXCEPT ![method] = 1]
                /\ shotsSeen' = {shots}
                /\ backendShots' = BackendShotsOf(method, qubits, shots)
    /\ BenchIdle
    /\ UNCHANGED <<backend, results_cache, fn, arg, out>>

\* generate_random_numbers(method) with any other method: no engine call.
GenerateInvalid ==
    /\ request.op = "none"
    /\ \E qubits \in 0..MaxQubits, shots \in 0..MaxShots :
          request' = [op |-> "generate", method |-> "invalid",
                      qubits |-> qubits, shots |-> shots]
    /\ result' = NoResult
    /\ response' = InvalidMethodResponse
    /\ BenchIdle
    /\ NoHistory
    /\ UNCHANGED <<backend, results_cache, fn, arg, out>>

\* run_benchmark: benchmark_methods(runs) is entered.
BenchStart ==
    /\ request.op = "none"
    /\ \E r \in 0..MaxRuns :
          /\ request' = [op |-> "benchmark", runs |-> r]
          /\ runs' = r
    /\ result' = NoResult
    /\ response' = NoResponse
    /\ bpc' = "run"
    /\ mi' = 1
    /\ i' = 0
    /\ times' = <<>>
    /\ entropies' = <<>>
    /\ results' = EmptyDict
    /\ ok' = NoCalls
    /\ NoHistory
    /\ UNCHANGED <<backend, results_cache, fn, arg, out>>

\* One pass of 'for i in range(runs)'.
BenchRun ==
    /\ bpc = "run"
    /\ i < runs
    /\ \E inp \in BenchInputs(MethodList[mi]) :
          \E res \in {BenchCall(MethodList[mi], inp.brs)} :
             /\ times' = IF Succeeded(res) THEN Append(times, inp.latency) ELSE times
             /\ entropies' = IF Succeeded(res) THEN Append(entropies, res.entropy)
                             ELSE entropies
             /\ ok' = [ok EXCEPT ![MethodList[mi]] = @ + (IF "error" \in DOMAIN res THEN 0 ELSE 1)]
    /\ i' = i + 1
    /\ calls' = [calls EXCEPT ![MethodList[mi]] = @ + 1]
    /\ shotsSeen' = shotsSeen \cup {BenchShots}
    /\ backendShots' = backendShots \cup BackendShotsOf(
                            MethodList[mi],
                            IF MethodList[mi] = "ghz" THEN DefaultGHZQubits
                            ELSE DefaultHadamardQubits,
                            BenchShots)
    /\ UNCHANGED <<backend, results_cache, request, result, response, bpc, runs, mi,
                   results, fn, arg, out>>

\* The inner loop is over: 'if times: results[method] = {...}'.
BenchAggregate ==
    /\ bpc = "run"
    /\ i >= runs
    /\ results' = Aggregate(results, MethodList[mi], times, entropies)
    /\ bpc' = "next"
    /\ UNCHANGED <<backend, results_cache, request, result, response, runs, mi, i,
                   times, entropies, calls, ok, shotsSeen, backendShots, fn, arg, out>>

\* Next pass of 'for method in methods': times = []; entropies = [].
BenchNextMethod ==
    /\ bpc = "next"
    /\ mi < Len(MethodList)
    /\ mi' = mi + 1
    /\ i' = 0
    /\ times' = <<>>
    /\ entropies' = <<>>
    /\ bpc' = "run"
    /\ UNCHANGED <<backend, results_cache, request, result, response, runs, results,
                   calls, ok, shotsSeen, backendShots, fn, arg, out>>

\* return results, and run_benchmark's response.
BenchReturn ==
    /\ bpc = "next"
    /\ mi = Len(MethodList)
    /\ bpc' = "done"
    /\ \E plotFault \in BOOLEAN :
          response' = IF plotFault THEN [status |-> 500, body |-> [error |-> <<"plot">>]]
                      ELSE [status |-> 200,
                            body |-> [benchmark_results |-> results, total_runs |-> runs]]
    /\ UNCHANGED <<backend, results_cache, request, result, runs, mi, i, times,
                   entropies, results, calls, ok, shotsSeen, backendShots, fn, arg, out>>

\* The response has been sent: the handler's result and locals are dropped.
Respond ==
    /\ response # NoResponse
    /\ request' = [op |-> "none"]
    /\ result' = NoResult
    /\ response' = NoResponse
    /\ BenchIdle
    /\ NoHistory
    /\ UNCHANGED <<backend, results_cache, fn, arg, out>>

Next ==
    \/ Generate
    \/ GenerateInvalid
    \/ BenchStart
    \/ BenchRun
    \/ BenchAggregate
    \/ BenchNextMethod
    \/ BenchReturn
    \/ Respond

Spec == Init /\ [][Next]_vars

(***************************************************************************)
(* The pure functions on drawn inputs.                                     *)
(***************************************************************************)
InitPure ==
    /\ InitInstance
    /\ InitIdle
    /\ out = Pending
    /\ \/ fn = "extract" /\ arg \in BitLists
       \/ fn = "entropy" /\ arg \in CountInputs
       \/ fn = "bit_entropy" /\ arg \in {b \in BitLists : Len(Join(b)) <= MaxTotal}

PureFrame ==
    UNCHANGED <<backend, results_cache, request, result, response, bpc, runs, mi, i,
                times, entropies, results, calls, ok, shotsSeen, backendShots, fn, arg>>

ApplyExtractor ==
    /\ fn = "extract" /\ out = Pending
    /\ out' = [value |-> VonNeumannExtractor(arg)]
    /\ PureFrame

ApplyEntropy ==
    /\ fn = "entropy" /\ out = Pending
    /\ out' = [value |-> CalculateEntropy(arg)]
    /\ PureFrame

ApplyBitEntropy ==
    /\ fn = "bit_entropy" /\ out = Pending
    /\ out' = [value |-> CalculateBitEntropy(arg)]
    /\ PureFrame

NextPure == ApplyExtractor \/ ApplyEntropy \/ ApplyBitEntropy

SpecPure == InitPure /\ [][NextPure]_vars

(***************************************************************************)
(* Properties.                                                             *)
(***************************************************************************)
IsUnequalPair(x) == x = <<0, 1>> \/ x = <<1, 0>>

Generated == request.op = "generate" /\ request.method \in Methods

\* The shots a successful call of the requested method sampled.
SampledShots ==
    IF request.method = "nist" THEN NistSources * (request.shots \div 4) ELSE request.shots

\* C1: the extractor's output is, in input order, '0' for every element equal
\* to '01' and '1' for every element equal to '10' (the first character of the
\* pair) and nothing for any other element, so its length is the number of
\* '01' elements plus the number of '10' elements.
C1_ExtractorOutput ==
    (fn = "extract" /\ out # Pending) =>
        LET kept == SelectSeq(arg, IsUnequalPair)
        IN /\ out.value = [j \in 1..Len(kept) |-> <<kept[j][1]>>]
           /\ Len(out.value) = Cardinality({j \in 1..Len(arg) : arg[j] = <<0, 1>>})
                               + Cardinality({j \in 1..Len(arg) : arg[j] = <<1, 0>>})

C1_Witness ==
    /\ fn = "extract"
    /\ arg = << <<1, 0>>, <<1>>, <<0, 1>> >>
    /\ out = [value |-> << <<1>>, <<0>> >>]

\* C2: every outcome a successful Bell call sampled is '00' or '11', and every
\* outcome a successful GHZ call on n >= 1 qubits sampled is the all-zeros or
\* the all-ones string of width n, whatever the shots.
C2_EntangledOutcomes ==
    (Generated /\ Succeeded(result)) =>
        /\ request.method = "bell" =>
              /\ DOMAIN result.counts \subseteq {<<0, 0>>, <<1, 1>>}
              /\ \A j \in 1..Len(result.random_bits) :
                    result.random_bits[j] \in {<<0, 0>>, <<1, 1>>}
        /\ (request.method = "ghz" /\ request.qubits >= 1) =>
              /\ DOMAIN result.counts \subseteq {Zeros(request.qubits), Ones(request.qubits)}
              /\ \A j \in 1..Len(result.random_bits) :
                    result.random_bits[j] \in {Zeros(request.qubits), Ones(request.qubits)}

C2_Witness ==
    /\ Generated /\ request.method = "ghz" /\ request.qubits = 3
    /\ Succeeded(result)
    /\ DOMAIN result.counts = {<<0, 0, 0>>, <<1, 1, 1>>}

\* C3: a successful Hadamard, Bell or GHZ call with shots > 0 returns counts
\* that sum to shots and random_bits with shots entries; the combined method
\* gives each sub-circuit shots // 4 shots and collects 4 * (shots // 4)
\* outcomes.
C3_ShotCount ==
    (Generated /\ Succeeded(result) /\ request.shots > 0) =>
        IF request.method = "nist"
        THEN /\ backendShots = {request.shots \div 4}
             /\ Len(result.raw_bits) = (request.shots \div 4) * 4
        ELSE /\ backendShots = {request.shots}
             /\ SumValues(result.counts) = request.shots
             /\ Len(result.random_bits) = request.shots

C3_Witness ==
    /\ Generated /\ request.method = "nist" /\ request.shots = 5
    /\ Succeeded(result)
    /\ Len(result.raw_bits) = 4

\* C5: a generation method answers every call with a value: a result with
\* 'method' and 'entropy', or a failure that holds 'error' alone, naming the
\* method and the cause; the web layer answers every failure with an error
\* status carrying it.
ErrorPrefix ==
    [m \in Methods |->
        IF m = "hadamard" THEN "Hadamard method failed"
        ELSE IF m = "bell" THEN "Bell state method failed"
        ELSE IF m = "ghz" THEN "GHZ state method failed"
        ELSE "NIST method failed"]

C5_ValueOrFailure ==
    Generated =>
        \/ /\ "error" \notin DOMAIN result
           /\ {"method", "entropy"} \subseteq DOMAIN result
        \/ /\ DOMAIN result = {"error"}
           /\ result.error[1] = ErrorPrefix[request.method]
           /\ result.error[2] \in {"circuit", "backend"}
           /\ response.status = 500
           /\ response.body = [error |-> result.error]

C5_Witness ==
    /\ Generated /\ request.method = "nist"
    /\ result = [error |-> <<"NIST method failed", "backend">>]
    /\ response.status = 500

\* C6: the benchmark calls each method runs times, one method after the other
\* and with shots = 100; a method is in the mapping exactly when at least one of
\* its runs returned no error, its successful_runs is the number of those
\* runs, and only they left a latency and an entropy sample.
MethodIndex(m) == CHOOSE j \in 1..Len(MethodList) : MethodList[j] = m

C6_BenchmarkCounts ==
    (request.op = "benchmark") =>
        /\ shotsSeen \subseteq {100}
        /\ \A m \in Methods :
              /\ MethodIndex(m) < mi => calls[m] = runs
              /\ MethodIndex(m) > mi => calls[m] = 0 /\ m \notin DOMAIN results
              /\ MethodIndex(m) = mi => calls[m] = i
              /\ ok[m] <= calls[m]
        /\ Len(times) = ok[MethodList[mi]] /\ Len(entropies) = ok[MethodList[mi]]
        /\ bpc \in {"next", "done"} =>
              /\ calls[MethodList[mi]] = runs
              /\ \A m \in Methods :
                    MethodIndex(m) <= mi =>
                       /\ m \in DOMAIN results <=> ok[m] > 0
                       /\ m \in DOMAIN results => results[m].successful_runs = ok[m]
        /\ (bpc = "done" /\ runs = 0) => results = EmptyDict
        /\ (bpc = "done" /\ response.status = 200) =>
              /\ response.body.benchmark_results = results
              /\ DOMAIN results = {m \in Methods : ok[m] > 0}

C6_Witness ==
    /\ request.op = "benchmark" /\ bpc = "done" /\ runs = 2
    /\ ok["hadamard"] = 0 /\ calls["hadamard"] = 2 /\ "hadamard" \notin DOMAIN results
    /\ ok["nist"] = 1 /\ calls["nist"] = 2
    /\ "nist" \in DOMAIN results /\ results["nist"].successful_runs = 1

\* C7: once a method with a successful run is aggregated, min_time <= avg_time
\* <= max_time, the averages are the sums over the successful runs divided by
\* their number, and successful_runs is that number; when all of them took
\* the same latency t and gave the same entropy e, avg_time = min_time =
\* max_time = t, avg_entropy = e and both standard deviations are 0 (and
\* successful_runs = runs when every run succeeded).
AllSame(xs) == \A j \in 1..Len(xs) : xs[j] = xs[1]

C8_EntropyBounds ==
    /\ (fn = "entropy" /\ out # Pending) =>
          LET nonzero == {x \in DOMAIN arg : arg[x] > 0}
              k == Cardinality(nonzero)
              e == out.value
          IN /\ SumValues(arg) = 0 => e = EntropyZero
             /\ k >= 1 => e.num >= e.den /\ e.num <= e.den * Pow(k, e.L)
             /\ k = 1 => e.num = e.den
             /\ e = CalculateEntropy([x \in nonzero |-> arg[x]])
    /\ (fn = "bit_entropy" /\ out # Pending) =>
          LET e == out.value
          IN /\ arg = <<>> => e = EntropyZero
             /\ e.num >= e.den /\ e.num <= e.den * Pow(2, e.L)

C8_Witness ==
    /\ fn = "entropy" /\ out # Pending
    /\ Cardinality({x \in DOMAIN arg : arg[x] > 0}) = 2
    /\ \E x \in DOMAIN arg : arg[x] = 0
    /\ out.value.num > out.value.den
    /\ out.value.num < out.value.den * Pow(2, out.value.L)

\* C9: every successful result that sampled shots carries the method name, an
\* entropy and random_bits with one outcome per sampled shot, so a 200
\* response reports them in random_bits and total_bits; processed_bits is in
\* the result of the combined method only.
C9_RandomBitsEveryMethod ==
    (Generated /\ Succeeded(result) /\ SampledShots > 0) =>
        /\ {"method", "entropy", "random_bits"} \subseteq DOMAIN result
        /\ Len(result.random_bits) = SampledShots
        /\ "processed_bits" \in DOMAIN result <=> request.method = "nist"
        /\ response.status = 200 =>
              /\ response.body.random_bits = result.random_bits
              /\ response.body.total_bits = SampledShots

====
